---- MODULE Spec2Model ----
(***************************************************************************)
(* Model of the survey front-end (Althafp/nasik_matrix): the bulk PDF      *)
(* export pipeline (generateBulkPDFs / generateClientBulkPDFs) and the     *)
(* phone-number normalisation of the auth gateway.                         *)
(*                                                                         *)
(* The repository holds three copies of the export loop:                   *)
(*   "html"   generateBulkPDFs of src/utils/bulkPdfExport.ts (html2canvas) *)
(*   "client" generateClientBulkPDFs (jsPDF version, part_002/part_003)    *)
(*   "full"   generateBulkPDFs (jsPDF version, part_002/part_003)          *)
(* JavaScript runs them on one thread: an action of the model is one       *)
(* synchronous segment of code between two awaits.                         *)
(*                                                                         *)
(* Further specifications, each with the other subsystems at rest:         *)
(*   SpecAuth    signIn in its two copies (three lookups in part_000, one  *)
(*               in src/firebase/auth.ts) under AuthProvider.signIn        *)
(*   SpecStore   createSurvey, updateSurvey and deleteSurvey as the pages  *)
(*               CreateSurvey and SurveyDetails call them                  *)
(*   SpecView    the Dashboard's loadSurveys and the SurveyDetails page    *)
(*   SpecScript  the one-off update script (part_005)                      *)
(***************************************************************************)
EXTENDS Integers, Sequences, FiniteSets, TLC

(* ------------------------------ bounds -------------------------------- *)
MaxRecords == 7
MaxPhoneLen == 3
MaxSignIns == 2
MaxDocs == 2
MaxImages == 2
MaxScriptSurveys == 2
MaxImageUrls == 2
MaxListed == 3

(* ------------------------- program constants -------------------------- *)
SUB_BATCH_SIZE == 3
BATCH_SIZE == 5

Profiles == {"html", "client", "full"}

Min(a, b) == IF a < b THEN a ELSE b

(* ------------------------- JavaScript values -------------------------- *)
\* A value is its type tag and its printed form.
Num(k) == [t |-> "number", s |-> ToString(k)]
Str(x) == [t |-> "string", s |-> x]
Undefined == [t |-> "undefined", s |-> "undefined"]

\* ToBoolean: undefined, 0 and "" are falsy.
Truthy(v) ==
  /\ v.t # "undefined"
  /\ ~(v.t = "number" /\ v.s = "0")
  /\ ~(v.t = "string" /\ v.s = "")

\* a || b
OrElse(v, d) == IF Truthy(v) THEN v ELSE d

\* String(v)
StringOf(v) == [t |-> "string", s |-> v.s]

(* ------------------------------ records ------------------------------- *)
\* A survey with both identifying fields set.
CompleteSurvey(i) == [rfpNumber |-> Num(100 + i), poleId |-> Str(ToString(i))]

\* Surveys whose identifying fields are absent or falsy.
LackingSurveys ==
  { [rfpNumber |-> Undefined, poleId |-> Undefined],
    [rfpNumber |-> Num(0), poleId |-> Str("")] }

\* The input lists: all surveys complete, or the first or the last one lacking.
SurveyLists(n) ==
  { [i \in 1..n |-> IF i \in L THEN k ELSE CompleteSurvey(i)] :
      L \in {{}, {1} \cap (1..n), {n} \cap (1..n)},
      k \in LackingSurveys }

(* ------------------------------ batching ------------------------------ *)
\* Variant: the client export uses the small batch size too.
BatchSize_ClientSmall(p) ==
  IF p \in {"html", "client"} THEN SUB_BATCH_SIZE ELSE BATCH_SIZE

BatchSize(p) == IF p = "html" THEN SUB_BATCH_SIZE ELSE BATCH_SIZE

\* Variant: the slice is not cut at the end of the list.
Slice_Unclamped(i, size, n) == [k \in 1..size |-> i + k]

\* surveys.slice(i, i + size), as the 1-based positions of the input
Slice(i, size, n) == [k \in 1..Min(size, n - i) |-> i + k]

\* for (let i = 0; i < surveys.length; i += size) batches.push(slice)
RECURSIVE BatchLoop(_, _, _, _)
BatchLoop(i, size, n, acc) ==
  IF i < n THEN BatchLoop(i + size, size, n, Append(acc, Slice(i, size, n)))
  ELSE acc

Batches(p, n) == BatchLoop(0, BatchSize(p), n, <<>>)

Range(s) == {s[k] : k \in 1..Len(s)}

(* ------------------------ phone normalisation ------------------------ *)
\* A string is the sequence of its characters.
DigitChars == {"0", "1", "2", "3", "4", "5", "6", "7", "8", "9"}

\* phone.replace(/[^\d+]/g, '')
StripPhone(s) == SelectSeq(s, LAMBDA c : c \in DigitChars \cup {"+"})

\* s.startsWith(prefix)
StartsWith(s, prefix) ==
  /\ Len(s) >= Len(prefix)
  /\ SubSeq(s, 1, Len(prefix)) = prefix

\* s.substring(1)
Substring1(s) == SubSeq(s, 2, Len(s))

\* Variant: the trunk-digit branch prepends 91 without the sign.
normalizePhoneNumber_TrunkNoPlus(s) ==
  LET stripped == StripPhone(s) IN
  IF StartsWith(stripped, <<"+">>) THEN stripped
  ELSE IF StartsWith(stripped, <<"9", "1">>) THEN <<"+">> \o stripped
  ELSE IF StartsWith(stripped, <<"0">>)
       THEN <<"9", "1">> \o Substring1(stripped)
  ELSE <<"+", "9", "1">> \o stripped

normalizePhoneNumber(s) ==
  LET stripped == StripPhone(s) IN
  IF StartsWith(stripped, <<"+">>) THEN stripped
  ELSE IF StartsWith(stripped, <<"9", "1">>) THEN <<"+">> \o stripped
  ELSE IF StartsWith(stripped, <<"0">>)
       THEN <<"+", "9", "1">> \o Substring1(stripped)
  ELSE <<"+", "9", "1">> \o stripped

\* The characters the short inputs are built from: the sign, digits that the
\* branches test for, another digit, and two characters that are stripped.
PhoneChars == {"+", "0", "1", "9", "5", "-", " "}

RECURSIVE StringsUpTo(_)
StringsUpTo(n) ==
  IF n = 0 THEN {<<>>}
  ELSE LET shorter == StringsUpTo(n - 1) IN
       shorter \cup {Append(s, c) : s \in {x \in shorter : Len(x) = n - 1},
                                    c \in PhoneChars}

\* Ten-digit national numbers: two leading digits and a fixed tail.
NationalTail == <<"7", "6", "5", "4", "3", "2", "1", "0">>
NationalNumbers ==
  {<<a, b>> \o NationalTail : a \in {"6", "7", "8", "9"},
                               b \in {"0", "1", "5", "8"}}

\* The three ways a national number is entered.
PhoneForms(n) == {n, <<"0">> \o n, <<"+", "9", "1">> \o n}

PhoneInputs ==
  StringsUpTo(MaxPhoneLen) \cup UNION {PhoneForms(n) : n \in NationalNumbers}

(* ------------------------------- state -------------------------------- *)
VARIABLES
  surveys,      \* the input list of the export call
  onProgress,   \* the callback argument: "none", "returns" or "throws"
  jobs,         \* one export call per profile that runs on this input
  outcome,      \* per survey: "pending", or how its render+download ended
  failOrder,    \* the positions whose render or download failed, in order
  phone,        \* the argument of normalizePhoneNumber
  normalized,   \* normalizePhoneNumber(phone), once computed
  renormalized, \* normalizePhoneNumber(normalized), once computed
  phonePc,      \* "input", "once", "twice"
  users,        \* the 'users' collection: document id -> document data
  authImpl,     \* which copy of signIn runs: "tiered" or "single"
  call,         \* the signIn call in flight and its locals
  ctxUser,      \* AuthProvider's user state
  localUser,    \* localStorage['user']
  observed,     \* what callers of the context's signIn have caught
  clock,        \* the store's server time
  docs,         \* survey documents: <<owner, id>> -> document data
  blobs,        \* the objects in the blob store, by path
  nextId,       \* the id the store assigns to the next added document
  del,          \* the deleteSurvey call in flight and its locals
  dash,         \* the Dashboard component's state and its load in flight
  detail,       \* the SurveyDetails component's state
  scriptDb,     \* the surveys the update script walks over
  scriptBefore, \* the same surveys as they were before the run
  script,       \* the update script's position and counters
  loading,      \* AuthProvider's loading state
  imgJob,       \* one record's task of an export, image by image
  ui            \* the Dashboard's export buttons, flags and range dialog

exportVars == <<surveys, onProgress, jobs, outcome, failOrder>>
phoneVars == <<phone, normalized, renormalized, phonePc>>
authVars == <<users, authImpl, call, ctxUser, localUser, observed, clock,
              loading>>
storeVars == <<docs, blobs, nextId, del, dash, detail>>
scriptVars == <<scriptDb, scriptBefore, script>>
imageVars == <<imgJob>>
uiVars == <<ui>>
vars == <<surveys, onProgress, jobs, outcome, failOrder,
          phone, normalized, renormalized, phonePc,
          users, authImpl, call, ctxUser, localUser, observed, clock,
          docs, blobs, nextId, del, dash, detail,
          scriptDb, scriptBefore, script, loading, imgJob, ui>>
nonExportVars == <<phoneVars, authVars, storeVars, scriptVars, imageVars,
                   uiVars>>
nonPhoneVars == <<exportVars, authVars, storeVars, scriptVars, imageVars,
                  uiVars>>
nonAuthVars == <<exportVars, phoneVars, storeVars, scriptVars, imageVars,
                 uiVars>>
nonStoreVars == <<exportVars, phoneVars, authVars, scriptVars, imageVars,
                  uiVars>>
nonScriptVars == <<exportVars, phoneVars, authVars, storeVars, imageVars,
                   uiVars>>
nonImageVars == <<exportVars, phoneVars, authVars, storeVars, scriptVars,
                  uiVars>>
nonUiVars == <<exportVars, phoneVars, authVars, storeVars, scriptVars,
               imageVars>>

N == Len(surveys)
Active == DOMAIN jobs

\* The locals of one export call, before its first statement runs.
NewJob ==
  [ pc |-> "called",
    batchIdx |-> 0,
    st |-> [i \in 1..N |-> "notStarted"],
    started |-> <<>>,
    totalSuccess |-> 0,
    totalFailed |-> 0,
    completed |-> 0,
    failedSurveys |-> <<>>,
    cbLog |-> <<>>,
    cbThrew |-> FALSE ]

\* Which export calls are observed together on one input.  Two calls of a
\* pair see the same render outcomes in the same order.
ActiveSets ==
  {{p} : p \in Profiles} \cup {{"client", "full"}, {"client", "html"}}

(* --------------------------- the export loop -------------------------- *)
\* Variant: the entry copies the survey's fields without a placeholder.
FailedEntry_NoDefault(p, survey) ==
  [rfpNumber |-> survey.rfpNumber, poleId |-> survey.poleId]

\* The entry pushed to allFailedSurveys in the catch block.
FailedEntry(p, survey) ==
  IF p = "html"
  THEN [ rfpNumber |-> StringOf(OrElse(survey.rfpNumber, Str("unknown"))),
         poleId |-> StringOf(OrElse(survey.poleId, Str("unknown"))) ]
  ELSE [ rfpNumber |-> OrElse(survey.rfpNumber, Str("N/A")),
         poleId |-> OrElse(survey.poleId, Str("N/A")) ]

\* if (onProgress) onProgress(current, surveys.length); throws tells whether
\* this invocation raises.
Invoke(j, current, throws) ==
  IF onProgress = "none" THEN j
  ELSE [j EXCEPT !.cbLog = Append(@, <<current, N>>),
                 !.cbThrew = @ \/ throws]

Raised(throws) == onProgress # "none" /\ throws

\* batch.map(async (survey) => ...): every task of the batch runs up to its
\* first await inside the same synchronous call of map.
StartBatch(p, j, b) ==
  LET batch == Batches(p, N)[b] IN
  [j EXCEPT !.batchIdx = b,
            !.st = [i \in 1..N |-> IF i \in Range(batch) THEN "rendering"
                                   ELSE @[i]],
            !.started = @ \o batch,
            !.pc = "awaitAll"]

\* Variant: the catch block records the failure without counting it.
JsPdfTask_NoFailedCount(p, j, i, o, t1) ==
  LET j1 == IF o = "ok"
            THEN [j EXCEPT !.totalSuccess = @ + 1]
            ELSE [j EXCEPT !.failedSurveys =
                              Append(@, FailedEntry(p, surveys[i]))]
      j2 == [j1 EXCEPT !.completed = @ + 1]
      j3 == Invoke(j2, j2.completed, t1)
  IN [j3 EXCEPT !.st[i] = IF Raised(t1) THEN "rejected" ELSE "settled"]

\* Variant: completed++ sits in the try block instead of the finally block.
JsPdfTask_CompletedInTry(p, j, i, o, t1) ==
  LET j1 == IF o = "ok"
            THEN [j EXCEPT !.totalSuccess = @ + 1, !.completed = @ + 1]
            ELSE [j EXCEPT !.totalFailed = @ + 1,
                           !.failedSurveys =
                              Append(@, FailedEntry(p, surveys[i]))]
      j3 == Invoke(j1, j1.completed, t1)
  IN [j3 EXCEPT !.st[i] = IF Raised(t1) THEN "rejected" ELSE "settled"]

\* jsPDF versions: try { render; download; totalSuccess++ }
\* catch { totalFailed++; push } finally { completed++; onProgress }
JsPdfTask(p, j, i, o, t1) ==
  LET j1 == IF o = "ok"
            THEN [j EXCEPT !.totalSuccess = @ + 1]
            ELSE [j EXCEPT !.totalFailed = @ + 1,
                           !.failedSurveys =
                              Append(@, FailedEntry(p, surveys[i]))]
      j2 == [j1 EXCEPT !.completed = @ + 1]
      j3 == Invoke(j2, j2.completed, t1)
  IN [j3 EXCEPT !.st[i] = IF Raised(t1) THEN "rejected" ELSE "settled"]

\* Variant: the catch block records the failure and throws it again.
HtmlCatch_Rethrow(p, j, i, t) ==
  LET j1 == [j EXCEPT !.failedSurveys = Append(@, FailedEntry(p, surveys[i])),
                      !.completed = @ + 1,
                      !.totalFailed = @ + 1]
      j2 == Invoke(j1, j1.completed, t)
  IN [j2 EXCEPT !.st[i] = "rejected"]

\* html version, catch block: push; totalCompleted++; totalFailed++;
\* onProgress.  A throw of the callback here rejects the task.
HtmlCatch(p, j, i, t) ==
  LET j1 == [j EXCEPT !.failedSurveys = Append(@, FailedEntry(p, surveys[i])),
                      !.completed = @ + 1,
                      !.totalFailed = @ + 1]
      j2 == Invoke(j1, j1.completed, t)
  IN [j2 EXCEPT !.st[i] = IF Raised(t) THEN "rejected" ELSE "settled"]

\* Variant: the success path counts the survey without reporting progress.
HtmlCount_NoProgress(p, j, i, t1, t2) ==
  [j EXCEPT !.completed = @ + 1, !.totalSuccess = @ + 1, !.st[i] = "settled"]

\* html version, end of the try block: totalCompleted++; totalSuccess++;
\* onProgress.  The callback runs inside the try: its throw enters the catch.
HtmlCount(p, j, i, t1, t2) ==
  LET j1 == [j EXCEPT !.completed = @ + 1, !.totalSuccess = @ + 1]
      j2 == Invoke(j1, j1.completed, t1)
  IN IF Raised(t1) THEN HtmlCatch(p, j2, i, t2)
     ELSE [j2 EXCEPT !.st[i] = "settled"]

\* indexInBatch < subBatch.length - 1
NotLastInBatch(p, j, i) ==
  LET batch == Batches(p, N)[j.batchIdx] IN i # batch[Len(batch)]

\* html version, after generateSinglePDFBlob settles.
HtmlTask(p, j, i, o, t1, t2) ==
  IF o = "ok"
  THEN IF NotLastInBatch(p, j, i)
       THEN [j EXCEPT !.st[i] = "delaying"]
       ELSE HtmlCount(p, j, i, t1, t2)
  ELSE HtmlCatch(p, j, i, t1)

TaskSettle(p, j, i, o, t1, t2) ==
  IF p = "html" THEN HtmlTask(p, j, i, o, t1, t2)
  ELSE JsPdfTask(p, j, i, o, t1)

Throws == IF onProgress = "throws" THEN BOOLEAN ELSE {FALSE}

\* Variant: the loop goes on as soon as one task of the batch has settled.
BatchSettled_Race(p, j) ==
  \E i \in Range(Batches(p, N)[j.batchIdx]) : j.st[i] = "settled"

BatchSettled(p, j) ==
  \A i \in Range(Batches(p, N)[j.batchIdx]) : j.st[i] = "settled"

BatchRejected(p, j) ==
  \E i \in Range(Batches(p, N)[j.batchIdx]) : j.st[i] = "rejected"

HasNextBatch(p, j) == j.batchIdx < Len(Batches(p, N))

\* The statements after `await Promise.all(...)` up to the next await.
AfterBatch(p, j, t) ==
  IF p = "client"
  THEN IF HasNextBatch(p, j) THEN StartBatch(p, j, j.batchIdx + 1)
       ELSE [j EXCEPT !.pc = "done"]
  ELSE IF p = "full"
  THEN [j EXCEPT !.pc = "gap"]
  ELSE IF HasNextBatch(p, j)
  THEN [j EXCEPT !.pc = "gap"]
  ELSE LET j1 == Invoke(j, N, t)
       IN [j1 EXCEPT !.pc = IF Raised(t) THEN "rejected" ELSE "done"]

\* The statements after the 500 ms pause between batches.
AfterGap(p, j) ==
  IF HasNextBatch(p, j) THEN StartBatch(p, j, j.batchIdx + 1)
  ELSE [j EXCEPT !.pc = "done"]

(* ------------------------------ actions ------------------------------- *)
\* Entry of the export function up to its first await.
Call(p) ==
  /\ p \in Active
  /\ jobs[p].pc = "called"
  /\ jobs' = [jobs EXCEPT ![p] =
                IF N = 0 THEN [@ EXCEPT !.pc = "threw"]
                ELSE StartBatch(p, @, 1)]
  /\ UNCHANGED <<surveys, onProgress, outcome, failOrder>>
  /\ UNCHANGED nonExportVars

\* The render+download step of survey i ends with outcome o; the rest of
\* its task runs up to the next await.
RenderSettle(i, o) ==
  /\ i \in 1..N
  /\ \A p \in Active : jobs[p].st[i] = "rendering"
  /\ \E t1 \in Throws, t2 \in Throws :
       jobs' = [p \in Active |-> TaskSettle(p, jobs[p], i, o, t1, t2)]
  /\ outcome' = [outcome EXCEPT ![i] = o]
  /\ failOrder' = IF o = "failed" THEN Append(failOrder, i) ELSE failOrder
  /\ UNCHANGED <<surveys, onProgress>>
  /\ UNCHANGED nonExportVars

\* html version: the 300 ms pause after a download ends.
DelayDone(p, i) ==
  /\ p \in Active
  /\ i \in 1..N
  /\ jobs[p].st[i] = "delaying"
  /\ \E t1 \in Throws, t2 \in Throws :
       jobs' = [jobs EXCEPT ![p] = HtmlCount(p, @, i, t1, t2)]
  /\ UNCHANGED <<surveys, onProgress, outcome, failOrder>>
  /\ UNCHANGED nonExportVars

\* await Promise.all(batchPromises) resumes: every task of the batch
\* fulfilled.
AwaitAll(p) ==
  /\ p \in Active
  /\ jobs[p].pc = "awaitAll"
  /\ BatchSettled(p, jobs[p])
  /\ \E t \in Throws : jobs' = [jobs EXCEPT ![p] = AfterBatch(p, @, t)]
  /\ UNCHANGED <<surveys, onProgress, outcome, failOrder>>
  /\ UNCHANGED nonExportVars

\* await Promise.all(batchPromises) throws: a task of the batch rejected.
AwaitReject(p) ==
  /\ p \in Active
  /\ jobs[p].pc = "awaitAll"
  /\ BatchRejected(p, jobs[p])
  /\ jobs' = [jobs EXCEPT ![p].pc = "rejected"]
  /\ UNCHANGED <<surveys, onProgress, outcome, failOrder>>
  /\ UNCHANGED nonExportVars

\* The 500 ms pause after a batch ends.
GapDone(p) ==
  /\ p \in Active
  /\ jobs[p].pc = "gap"
  /\ jobs' = [jobs EXCEPT ![p] = AfterGap(p, @)]
  /\ UNCHANGED <<surveys, onProgress, outcome, failOrder>>
  /\ UNCHANGED nonExportVars

(* ------------------ the other subsystems, when not running ------------ *)
\* A Firestore Timestamp, the plain object JSON makes of it, and no value.
Timestamp(n) == [kind |-> "Timestamp", seconds |-> n]
PlainTime(n) == [kind |-> "object", seconds |-> n]
NoTime == [kind |-> "none", seconds |-> 0]

NoUser == [id |-> "", phoneNumber |-> <<>>, role |-> "",
           createdAt |-> NoTime, updatedAt |-> NoTime, lastLogin |-> NoTime]

AuthIdle ==
  /\ users = <<>>
  /\ authImpl = "none"
  /\ call = [pc |-> "idle"]
  /\ ctxUser = NoUser
  /\ localUser = NoUser
  /\ observed = {}
  /\ clock = 0
  /\ loading = TRUE

StoreIdle ==
  /\ docs = <<>>
  /\ blobs = {}
  /\ nextId = 0
  /\ del = [pc |-> "idle"]
  /\ dash = [pc |-> "idle"]
  /\ detail = [pc |-> "idle"]

ScriptIdle ==
  /\ scriptDb = <<>>
  /\ scriptBefore = <<>>
  /\ script = [pc |-> "idle"]

ImageIdle == imgJob = [pc |-> "idle"]

UiIdle == ui = [pc |-> "idle"]

PhoneIdle ==
  /\ phone = <<>>
  /\ normalized = <<>>
  /\ renormalized = <<>>
  /\ phonePc = "input"

\* An export called with a callback that returns normally, or with none.
Init ==
  /\ \E n \in 0..MaxRecords : surveys \in SurveyLists(n)
  /\ onProgress \in {"none", "returns"}
  /\ \E A \in ActiveSets : jobs = [p \in A |-> NewJob]
  /\ outcome = [i \in 1..N |-> "pending"]
  /\ failOrder = <<>>
  /\ PhoneIdle /\ AuthIdle /\ StoreIdle /\ ScriptIdle
  /\ ImageIdle /\ UiIdle

Next ==
  \/ \E p \in Profiles : Call(p)
  \/ \E i \in 1..MaxRecords, o \in {"ok", "failed"} : RenderSettle(i, o)
  \/ \E p \in Profiles, i \in 1..MaxRecords : DelayDone(p, i)
  \/ \E p \in Profiles : AwaitAll(p)
  \/ \E p \in Profiles : GapDone(p)

Spec == Init /\ [][Next]_vars

\* An export called with a callback that may throw at any invocation.
InitCb ==
  /\ \E n \in 0..MaxRecords : surveys = [i \in 1..n |-> CompleteSurvey(i)]
  /\ onProgress = "throws"
  /\ \E p \in Profiles : jobs = [q \in {p} |-> NewJob]
  /\ outcome = [i \in 1..N |-> "pending"]
  /\ failOrder = <<>>
  /\ PhoneIdle /\ AuthIdle /\ StoreIdle /\ ScriptIdle
  /\ ImageIdle /\ UiIdle

NextCb ==
  \/ Next
  \/ \E p \in Profiles : AwaitReject(p)

SpecCb == InitCb /\ [][NextCb]_vars

(* ---------------------- normalizePhoneNumber calls -------------------- *)
ExportIdle ==
  /\ surveys = <<>>
  /\ onProgress = "none"
  /\ jobs = <<>>
  /\ outcome = <<>>
  /\ failOrder = <<>>

Normalize ==
  /\ phonePc = "input"
  /\ normalized' = normalizePhoneNumber(phone)
  /\ phonePc' = "once"
  /\ UNCHANGED <<phone, renormalized>>
  /\ UNCHANGED nonPhoneVars

Renormalize ==
  /\ phonePc = "once"
  /\ renormalized' = normalizePhoneNumber(normalized)
  /\ phonePc' = "twice"
  /\ UNCHANGED <<phone, normalized>>
  /\ UNCHANGED nonPhoneVars

InitPhone ==
  /\ ExportIdle /\ AuthIdle /\ StoreIdle /\ ScriptIdle
  /\ ImageIdle /\ UiIdle
  /\ phone \in PhoneInputs
  /\ normalized = <<>>
  /\ renormalized = <<>>
  /\ phonePc = "input"

NextPhone == Normalize \/ Renormalize

SpecPhone == InitPhone /\ [][NextPhone]_vars

(* ============================== signIn ================================ *)
UserIds == {"u1", "u2"}
Passwords == {"pw1", "pw2"}

\* SHA-256 in hex: a tagged digest, distinct for distinct passwords.
hashPassword(password) == <<"sha256", password>>

\* The forms a phone number was stored in over time: normalized, without
\* the country code, as typed with a trunk digit, and a foreign number.
StoredPhones ==
  {<<"+", "9", "1", "5">>, <<"5">>, <<"0", "5">>, <<"+", "1", "5">>}

\* What is typed into the login form.
LoginPhones ==
  {<<"5">>, <<"0", "5">>, <<"+", "9", "1", "5">>, <<"+", "1", "5">>,
   <<"7">>}

RoleOf(u) == IF u = "u1" THEN Str("admin") ELSE Undefined

\* A signIn call before its first statement.
NoCall ==
  [pc |-> "idle", phoneNumber |-> <<>>, password |-> "",
   normalizedPhone |-> <<>>, hashedPassword |-> <<>>, queries |-> <<>>,
   found |-> "", result |-> [kind |-> "none"], n |-> 0,
   before |-> <<>>]

\* getDocs(query(usersRef, where('phoneNumber', '==', p))): the matching
\* documents.
Matching(p) == {u \in DOMAIN users : users[u].phoneNumber = p}

\* querySnapshot.docs[0]: documents come back in document-id order.
IdRank == [u1 |-> 1, u2 |-> 2]
FirstDoc(snap) == CHOOSE u \in snap : \A v \in snap : IdRank[u] <= IdRank[v]

\* normalizedPhone.substring(3)
Substring3(s) == SubSeq(s, 4, Len(s))

CountryCode == <<"+", "9", "1">>

\* The query that follows an empty snapshot, or <<>> when the lookup ends.
\* The tiered copy has two fallbacks, the single copy has none.
NextQuery(c) ==
  IF authImpl = "single" THEN <<>>
  ELSE IF c.pc = "tier1" /\ StartsWith(c.normalizedPhone, CountryCode)
       THEN <<"tier2", Substring3(c.normalizedPhone)>>
  ELSE IF c.pc \in {"tier1", "tier2"} THEN <<"tier3", c.phoneNumber>>
  ELSE <<>>

\* The user object signIn returns, built from the data read by the lookup.
UserObject(u) ==
  [id |-> u, phoneNumber |-> users[u].phoneNumber,
   role |-> OrElse(users[u].role, Str("user")).s,
   createdAt |-> Timestamp(users[u].createdAt),
   updatedAt |-> Timestamp(users[u].updatedAt),
   lastLogin |-> Timestamp(users[u].lastLogin)]

\* JSON.parse(JSON.stringify(user)): a Timestamp becomes a plain object.
ToPlain(t) == IF t.kind = "Timestamp" THEN PlainTime(t.seconds) ELSE t
Stringify(user) ==
  [user EXCEPT !.createdAt = ToPlain(@), !.updatedAt = ToPlain(@),
               !.lastLogin = ToPlain(@)]

\* Variant: a failed sign-in ends the session.
Rejects_SignsOut(c, cause, message) ==
  /\ call' = [c EXCEPT !.pc = "done",
                       !.result = [kind |-> "error", message |-> message]]
  /\ observed' = observed \cup {[cause |-> cause, message |-> message]}
  /\ ctxUser' = NoUser
  /\ localUser' = NoUser
  /\ UNCHANGED <<users, clock>>

\* signIn rejects: its catch logs and rethrows, AuthProvider.signIn's catch
\* rethrows again, and the caller of the context catches the error.
Rejects(c, cause, message) ==
  /\ call' = [c EXCEPT !.pc = "done",
                       !.result = [kind |-> "error", message |-> message]]
  /\ observed' = observed \cup {[cause |-> cause, message |-> message]}
  /\ UNCHANGED <<users, ctxUser, localUser, clock>>

\* After the last snapshot: not found, wrong password, or the update of
\* the timestamps is issued.
AfterLookup(c, snap) ==
  IF snap = {} THEN Rejects(c, "notFound", "User not found")
  ELSE IF users[FirstDoc(snap)].password # c.hashedPassword
       THEN Rejects(c, "invalidPassword", "Invalid password")
  ELSE /\ call' = [c EXCEPT !.pc = "update", !.found = FirstDoc(snap)]
       /\ UNCHANGED <<users, ctxUser, localUser, observed, clock>>

\* signIn(phoneNumber, password) up to its first getDocs.
SignIn(ph, pw) ==
  /\ ~loading
  /\ call.pc \in {"idle", "done"}
  /\ call.n < MaxSignIns
  /\ call' = [NoCall EXCEPT !.pc = "tier1", !.phoneNumber = ph,
                            !.password = pw,
                            !.normalizedPhone = normalizePhoneNumber(ph),
                            !.hashedPassword = hashPassword(pw),
                            !.queries = <<normalizePhoneNumber(ph)>>,
                            !.n = call.n + 1,
                            !.before = <<users, ctxUser, localUser>>]
  /\ UNCHANGED <<users, authImpl, ctxUser, localUser, observed, clock,
                 loading>>
  /\ UNCHANGED nonAuthVars

\* A getDocs settles with its snapshot.
QuerySettle ==
  /\ call.pc \in {"tier1", "tier2", "tier3"}
  /\ LET snap == Matching(call.queries[Len(call.queries)])
         next == NextQuery(call)
     IN IF snap = {} /\ next # <<>>
        THEN /\ call' = [call EXCEPT !.pc = next[1],
                                     !.queries = Append(@, next[2])]
             /\ UNCHANGED <<users, ctxUser, localUser, observed, clock>>
        ELSE AfterLookup(call, snap)
  /\ UNCHANGED <<authImpl, loading>>
  /\ UNCHANGED nonAuthVars

\* The updateDoc of lastLogin and updatedAt settles; on success signIn
\* returns and AuthProvider.signIn stores the user.
UpdateSettle(ok) ==
  /\ call.pc = "update"
  /\ IF ok
     THEN /\ users' = [users EXCEPT ![call.found].lastLogin = clock + 1,
                                    ![call.found].updatedAt = clock + 1]
          /\ clock' = clock + 1
          /\ call' = [call EXCEPT !.pc = "done",
                        !.result = [kind |-> "user",
                                    user |-> UserObject(call.found)]]
          /\ ctxUser' = UserObject(call.found)
          /\ localUser' = Stringify(UserObject(call.found))
          /\ UNCHANGED observed
     ELSE Rejects(call, "store", "unavailable")
  /\ UNCHANGED <<authImpl, loading>>
  /\ UNCHANGED nonAuthVars

\* The effect of AuthProvider's first render: the stored user is restored.
Mount ==
  /\ loading
  /\ ctxUser' = IF localUser # NoUser THEN localUser ELSE ctxUser
  /\ loading' = FALSE
  /\ UNCHANGED <<users, authImpl, call, localUser, observed, clock>>
  /\ UNCHANGED nonAuthVars

\* Variant: signOut leaves the stored user in place.
SignOut_KeepsStorage ==
  /\ ~loading
  /\ ctxUser # NoUser
  /\ call.pc \in {"idle", "done"}
  /\ ctxUser' = NoUser
  /\ UNCHANGED localUser
  /\ UNCHANGED <<users, authImpl, call, observed, clock, loading>>
  /\ UNCHANGED nonAuthVars

\* signOut of the context, from the dashboard of a signed-in user.
SignOut ==
  /\ ~loading
  /\ ctxUser # NoUser
  /\ call.pc \in {"idle", "done"}
  /\ ctxUser' = NoUser
  /\ localUser' = NoUser
  /\ UNCHANGED <<users, authImpl, call, observed, clock, loading>>
  /\ UNCHANGED nonAuthVars

\* The page is loaded again: the component state starts over, a signIn in
\* flight is lost with the page, localStorage stays.
Reload ==
  /\ ~loading
  /\ ctxUser' = NoUser
  /\ loading' = TRUE
  /\ call' = [NoCall EXCEPT !.n = call.n]
  /\ UNCHANGED <<users, authImpl, localUser, observed, clock>>
  /\ UNCHANGED nonAuthVars

\* What PrivateRoute renders around a protected page.
PrivateRoute ==
  IF loading THEN "spinner"
  ELSE IF ctxUser # NoUser THEN "children"
  ELSE "login"

InitAuth ==
  /\ ExportIdle /\ PhoneIdle /\ StoreIdle /\ ScriptIdle
  /\ ImageIdle /\ UiIdle
  /\ \E ph \in [UserIds -> StoredPhones] :
       users = [u \in UserIds |->
                  [phoneNumber |-> ph[u],
                   password |-> hashPassword(IF u = "u1" THEN "pw1"
                                             ELSE "pw2"),
                   role |-> RoleOf(u),
                   createdAt |-> 0, updatedAt |-> 0, lastLogin |-> 0]]
  /\ authImpl \in {"tiered", "single"}
  /\ call = NoCall
  /\ ctxUser = NoUser
  /\ localUser = NoUser
  /\ observed = {}
  /\ clock = 0
  /\ loading = TRUE

NextAuth ==
  \/ \E ph \in LoginPhones, pw \in Passwords : SignIn(ph, pw)
  \/ QuerySettle
  \/ \E ok \in BOOLEAN : UpdateSettle(ok)
  \/ Mount
  \/ SignOut
  \/ Reload

SpecAuth == InitAuth /\ [][NextAuth]_vars

(* ===================== surveys: gateway and pages ===================== *)
NoDocs == [k \in {} |-> 0]
PoleIds == {"P1", "P2"}
\* The fields of the edit form that the model keeps.
EditableFields == {"poleId"}
DisplayName(u) == IF u = "u1" THEN "Asha" ELSE "Ravi"

\* isAdmin of the auth context, for the signed-in user u.
IsAdmin(u) == UserObject(u).role = "admin"

\* `surveys/${userId}/${timestamp}_${index}_${image.name}`
ObjectPath(userId, timestamp, index) ==
  <<"surveys", "/", userId, "/", ToString(timestamp), "_", ToString(index)>>

\* encodeURIComponent and decodeURIComponent, on the separator.
encodeURIComponent(path) ==
  [k \in 1..Len(path) |-> IF path[k] = "/" THEN "%2F" ELSE path[k]]
decodeURIComponent(path) ==
  [k \in 1..Len(path) |-> IF path[k] = "%2F" THEN "/" ELSE path[k]]

\* getDownloadURL: origin, /v0/b/{bucket}/o/{path}, ?alt=media&token=...
getDownloadURL(path) ==
  <<"https://firebasestorage.googleapis.com", "/v0/b/", "bucket", "/o/">>
    \o encodeURIComponent(path) \o <<"?", "alt=media&token=t">>

\* new URL(url).pathname: what follows the origin, up to the first '?'.
FirstQuery(url) ==
  IF \E k \in 1..Len(url) : url[k] = "?"
  THEN CHOOSE k \in 1..Len(url) :
         url[k] = "?" /\ \A j \in 1..(k - 1) : url[j] # "?"
  ELSE Len(url) + 1
Pathname(url) == SubSeq(url, 2, FirstQuery(url) - 1)

\* s.match(/\/o\/(.+)\?/): the group, or <<>> when there is no match. The
\* group runs from the first "/o/" to the last '?' and is not empty.
PathMatch(s) ==
  LET starts == {i \in 1..Len(s) : s[i] = "/o/"}
      ends == {j \in 1..Len(s) : s[j] = "?"}
      pairs == {p \in starts \X ends : p[2] > p[1] + 1}
  IN IF pairs = {} THEN <<>>
     ELSE LET i == CHOOSE i \in starts :
                     /\ \E j \in ends : <<i, j>> \in pairs
                     /\ \A k \in starts :
                          (\E j \in ends : <<k, j>> \in pairs) => i <= k
              j == CHOOSE j \in ends : \A k \in ends : k <= j
          IN SubSeq(s, i + 1, j - 1)

\* The blob deleteSurvey asks to delete for one image url, <<>> for none.
ImageRef(url) ==
  LET pathMatch == PathMatch(Pathname(url)) IN
  IF pathMatch # <<>> THEN decodeURIComponent(pathMatch) ELSE <<>>

\* Variant: the survey data is spread after the userId argument.
createSurveyData_DataWins(userId, surveyData) ==
  surveyData

\* { ...surveyData, userId, createdAt, updatedAt }
createSurveyData(userId, surveyData) ==
  [surveyData EXCEPT !.userId = userId]

\* updateDoc(ref, { ...updates, updatedAt }) on an existing document.
MergeUpdates(data, updates) ==
  [f \in DOMAIN data |-> IF f \in DOMAIN updates THEN updates[f] ELSE data[f]]

NoDel == [pc |-> "idle", owner |-> "", id |-> 0, imageUrls |-> <<>>,
          issued |-> {}, log |-> <<>>, result |-> "none",
          failedAt |-> "none"]
NoDetail == [pc |-> "idle", viewer |-> "", owner |-> "", id |-> 0,
             survey |-> [userId |-> "", userName |-> "", poleId |-> "",
                         imageUrls |-> <<>>],
             error |-> ""]
NoDash == [pc |-> "idle", user |-> "", section |-> "my", mySurveys |-> {},
           allSurveys |-> {}, error |-> "", calls |-> <<>>,
           failed |-> FALSE]

\* CreateSurvey's handleSubmit for user u with n images: the images are
\* uploaded, then createSurvey(u, surveyData) adds the document. The data
\* names the user dataUser in its ownership fields.
CreateSurvey(u, dataUser, n) ==
  /\ nextId < MaxDocs
  /\ LET id == nextId + 1
         paths == [j \in 1..n |-> ObjectPath(u, id, j - 1)]
         surveyData == [userId |-> dataUser,
                        userName |-> DisplayName(dataUser),
                        poleId |-> "P1",
                        imageUrls |-> [j \in 1..n |->
                                         getDownloadURL(paths[j])]]
     IN /\ blobs' = blobs \cup {paths[j] : j \in 1..n}
        /\ docs' = [k \in DOMAIN docs \cup {<<u, id>>} |->
                      IF k = <<u, id>> THEN createSurveyData(u, surveyData)
                      ELSE docs[k]]
        /\ nextId' = id
  /\ UNCHANGED <<del, dash, detail>>
  /\ UNCHANGED nonStoreVars

\* SurveyDetails opened by viewer on /survey/:userId/:surveyId: loadSurvey.
OpenDetail(viewer, owner, id) ==
  /\ detail.pc = "idle"
  /\ detail' =
       IF <<owner, id>> \in DOMAIN docs
       THEN [NoDetail EXCEPT !.pc = "shown", !.viewer = viewer,
                             !.owner = owner, !.id = id,
                             !.survey = docs[<<owner, id>>]]
       ELSE [NoDetail EXCEPT !.pc = "missing", !.viewer = viewer,
                             !.owner = owner, !.id = id,
                             !.error = "Survey not found"]
  /\ UNCHANGED <<docs, blobs, nextId, del, dash>>
  /\ UNCHANGED nonStoreVars

\* The user leaves the page.
CloseDetail ==
  /\ detail.pc \in {"shown", "missing"}
  /\ detail' = NoDetail
  /\ UNCHANGED <<docs, blobs, nextId, del, dash>>
  /\ UNCHANGED nonStoreVars

canEditOrDelete_AnyUser ==
  detail.pc = "shown"

canEditOrDelete ==
  /\ detail.pc = "shown"
  /\ IsAdmin(detail.viewer) \/ detail.viewer = detail.survey.userId

\* handleEditSave with the data of the edit form: updateSurvey, then the
\* survey is loaded again. updateDoc rejects when the document is gone.
EditSave(updates) ==
  /\ canEditOrDelete
  /\ LET key == <<detail.owner, detail.id>> IN
     IF key \in DOMAIN docs
     THEN /\ docs' = [docs EXCEPT ![key] = MergeUpdates(@, updates)]
          /\ detail' = [detail EXCEPT !.survey = docs'[key]]
     ELSE UNCHANGED <<docs, detail>>
  /\ UNCHANGED <<blobs, nextId, del, dash>>
  /\ UNCHANGED nonStoreVars

\* handleDelete, confirmed: deleteSurvey(userId, surveyId) up to its getDoc.
DeleteCall ==
  /\ canEditOrDelete
  /\ del.pc \in {"idle", "done"}
  /\ del' = [NoDel EXCEPT !.pc = "read", !.owner = detail.owner,
                          !.id = detail.id]
  /\ detail' = [detail EXCEPT !.pc = "deleting"]
  /\ UNCHANGED <<docs, blobs, nextId, dash>>
  /\ UNCHANGED nonStoreVars

\* The blobs the image tasks ask to delete, in the order of the urls.
IssuedRefs(urls) ==
  LET refs == [j \in 1..Len(urls) |-> ImageRef(urls[j])]
  IN SelectSeq(refs, LAMBDA r : r # <<>>)

\* getDoc settles. A rejection is rethrown by the catch and handleDelete
\* alerts. A missing document ends the call; otherwise every image task runs
\* up to its deleteObject, or the deleteDoc is issued at once.
DeleteRead(ok) ==
  /\ del.pc = "read"
  /\ LET key == <<del.owner, del.id>> IN
     IF ~ok
     THEN /\ del' = [del EXCEPT !.pc = "done", !.result = "error",
                                !.failedAt = "getDoc"]
          /\ detail' = [detail EXCEPT !.pc = "shown"]
     ELSE IF key \notin DOMAIN docs
     THEN /\ del' = [del EXCEPT !.pc = "done", !.result = "ok"]
          /\ detail' = NoDetail
     ELSE LET urls == docs[key].imageUrls
              refs == IssuedRefs(urls)
          IN /\ del' =
                  IF Len(urls) > 0
                  THEN [del EXCEPT
                          !.pc = "images", !.imageUrls = urls,
                          !.issued = Range(refs),
                          !.log = [j \in 1..Len(refs) |->
                                     [op |-> "deleteObject",
                                      path |-> refs[j]]]]
                  ELSE [del EXCEPT
                          !.pc = "doc",
                          !.log = <<[op |-> "deleteDoc", path |-> <<>>]>>]
             /\ UNCHANGED detail
  /\ UNCHANGED <<docs, blobs, nextId, dash>>
  /\ UNCHANGED nonStoreVars

\* Promise.allSettled: every issued deleteObject has settled, the ones in
\* removed with success; then the deleteDoc is issued.
ImagesSettled(removed) ==
  /\ del.pc = "images"
  /\ removed \subseteq del.issued
  /\ blobs' = blobs \ removed
  /\ del' = [del EXCEPT !.pc = "doc",
                        !.log = Append(@, [op |-> "deleteDoc",
                                           path |-> <<>>])]
  /\ UNCHANGED <<docs, nextId, dash, detail>>
  /\ UNCHANGED nonStoreVars

\* deleteDoc settles; handleDelete goes to the dashboard, or alerts.
DeleteDocSettle(ok) ==
  /\ del.pc = "doc"
  /\ IF ok
     THEN /\ docs' = [k \in DOMAIN docs \ {<<del.owner, del.id>>} |->
                        docs[k]]
          /\ del' = [del EXCEPT !.pc = "done", !.result = "ok"]
          /\ detail' = NoDetail
     ELSE /\ del' = [del EXCEPT !.pc = "done", !.result = "error",
                                !.failedAt = "deleteDoc"]
          /\ detail' = [detail EXCEPT !.pc = "shown"]
          /\ UNCHANGED docs
  /\ UNCHANGED <<blobs, nextId, dash>>
  /\ UNCHANGED nonStoreVars

\* The two gateway calls of loadSurveys, in the order of the role.
LoadCalls(u) ==
  IF IsAdmin(u) THEN <<"getAllSurveys", "getUserSurveys">>
  ELSE <<"getUserSurveys", "getAllSurveys">>

\* What a gateway call returns: its catch turns a store failure into [].
Returns(fn, u, ok) ==
  IF ~ok THEN {}
  ELSE IF fn = "getAllSurveys" THEN DOMAIN docs
  ELSE {k \in DOMAIN docs : k[1] = u}

\* Dashboard mounted for user u: loadSurveys up to its first await.
DashMount(u) ==
  /\ dash.pc = "idle"
  /\ dash' = [NoDash EXCEPT !.pc = "loading", !.user = u,
                            !.section = IF IsAdmin(u) THEN "all" ELSE "my",
                            !.calls = <<LoadCalls(u)[1]>>]
  /\ UNCHANGED <<docs, blobs, nextId, del, detail>>
  /\ UNCHANGED nonStoreVars

\* A gateway call of loadSurveys settles; the store answered it or failed.
DashSettle(ok) ==
  /\ dash.pc = "loading"
  /\ LET fn == dash.calls[Len(dash.calls)]
         list == Returns(fn, dash.user, ok)
         set == IF fn = "getAllSurveys"
                THEN [dash EXCEPT !.allSurveys = list,
                                  !.failed = @ \/ ~ok]
                ELSE [dash EXCEPT !.mySurveys = list,
                                  !.failed = @ \/ ~ok]
     IN dash' = IF Len(dash.calls) = 1
                THEN [set EXCEPT !.calls =
                                   Append(@, LoadCalls(dash.user)[2])]
                ELSE [set EXCEPT !.pc = "loaded"]
  /\ UNCHANGED <<docs, blobs, nextId, del, detail>>
  /\ UNCHANGED nonStoreVars

\* A click on the "All Surveys" or the "My Surveys" tab.
SelectSection(s) ==
  /\ dash.pc = "loaded"
  /\ dash.section # s
  /\ dash' = [dash EXCEPT !.section = s]
  /\ UNCHANGED <<docs, blobs, nextId, del, detail>>
  /\ UNCHANGED nonStoreVars

\* The surveys the dashboard lists.
filteredSurveys ==
  IF dash.section = "all" THEN dash.allSurveys ELSE dash.mySurveys

InitStore ==
  /\ ExportIdle /\ PhoneIdle /\ ScriptIdle /\ ImageIdle /\ UiIdle
  /\ users = [u \in UserIds |->
                [phoneNumber |-> <<"+", "9", "1", "5">>,
                 password |-> hashPassword("pw1"), role |-> RoleOf(u),
                 createdAt |-> 0, updatedAt |-> 0, lastLogin |-> 0]]
  /\ authImpl = "none"
  /\ call = [pc |-> "idle"]
  /\ ctxUser = NoUser
  /\ localUser = NoUser
  /\ observed = {}
  /\ clock = 0
  /\ loading = FALSE
  /\ docs = NoDocs
  /\ blobs = {}
  /\ nextId = 0
  /\ del = NoDel
  /\ dash = NoDash
  /\ detail = NoDetail

\* The ownership fields of the data name the caller or some other id.
Creations ==
  \/ \E u \in UserIds, n \in 0..MaxImages :
       \E d \in {u, "u9"} : CreateSurvey(u, d, n)

Details ==
  \/ \E v \in UserIds, o \in UserIds, i \in 1..MaxDocs : OpenDetail(v, o, i)
  \/ CloseDetail

\* Surveys are created, opened, edited and deleted.
NextStore ==
  \/ Creations
  \/ Details
  \/ \E upd \in [EditableFields -> PoleIds] : EditSave(upd)
  \/ DeleteCall
  \/ \E ok \in BOOLEAN : DeleteRead(ok)
  \/ \E removed \in SUBSET blobs : ImagesSettled(removed)
  \/ \E ok \in BOOLEAN : DeleteDocSettle(ok)

SpecStore == InitStore /\ [][NextStore]_vars

\* Surveys are created and looked at.
NextView ==
  \/ Creations
  \/ Details
  \/ \E u \in UserIds : DashMount(u)
  \/ \E ok \in BOOLEAN : DashSettle(ok)
  \/ \E s \in {"all", "my"} : SelectSection(s)

SpecView == InitStore /\ [][NextView]_vars

(* ========================= the update script ========================== *)
ScriptUsers == 1..2
Null == [t |-> "null", s |-> "null"]
NaN == [t |-> "number", s |-> "NaN"]
NumericStrings == {"0", "1", "2", "3", "4"}

\* Number(v) for a number or a string.
NumberOf(v) ==
  IF v.t = "number" THEN v
  ELSE IF v.t = "string" /\ v.s \in NumericStrings
       THEN [t |-> "number", s |-> v.s]
  ELSE NaN

\* The values of the two fields found in stored surveys; Undefined stands
\* for a field the document does not have.
PaValues == {Undefined, Null, Num(1), Num(2), Num(4), Str("1")}
JbValues == {Undefined, Str("1"), Str("2"), Num(1)}
ScriptSurveys == [paSystem : PaValues, jb : JbValues]

\* Variant: the test for 2 is not an else branch of the test for 1.
PaSystemUpdate_Chained(paSystem) ==
  IF paSystem # Undefined /\ paSystem # Null
  THEN IF NumberOf(paSystem) \in {Num(1), Num(2)} THEN Num(4)
       ELSE Undefined
  ELSE Undefined

\* updates.paSystem, Undefined when the script does not set it.
PaSystemUpdate(paSystem) ==
  IF paSystem # Undefined /\ paSystem # Null
  THEN IF NumberOf(paSystem) = Num(1) THEN Num(2)
       ELSE IF NumberOf(paSystem) = Num(2) THEN Num(4)
       ELSE Undefined
  ELSE Undefined

\* updates.jb, Undefined when the script does not set it.
JbUpdate(jb) ==
  IF jb = Undefined \/ jb = Null \/ jb # Str("1") THEN Str("1")
  ELSE Undefined

\* The updates object of one survey.
UpdatesOf(surveyData) ==
  LET fields ==
        (IF PaSystemUpdate(surveyData.paSystem) # Undefined
         THEN {"paSystem"} ELSE {})
        \cup (IF JbUpdate(surveyData.jb) # Undefined THEN {"jb"} ELSE {})
  IN [f \in fields |-> IF f = "paSystem"
                       THEN PaSystemUpdate(surveyData.paSystem)
                       ELSE JbUpdate(surveyData.jb)]

NoScript == [pc |-> "start", user |-> 0, pos |-> 0,
             totalUpdated |-> 0, paSystemUpdated |-> 0, jbUpdated |-> 0]

\* After the survey at pos: the next survey of the user, or the next user.
Advance(sc) ==
  IF sc.pos < Len(scriptDb[sc.user])
  THEN [sc EXCEPT !.pos = @ + 1, !.pc = "survey"]
  ELSE [sc EXCEPT !.pc = "users"]

\* db.collection('users').get() settles.
ScriptStart ==
  /\ script.pc = "start"
  /\ script' = [script EXCEPT !.pc = "users"]
  /\ UNCHANGED <<scriptDb, scriptBefore>>
  /\ UNCHANGED nonScriptVars

\* The next user's surveys are read; a user without surveys is skipped.
\* After the last user the summary is printed.
NextUser ==
  /\ script.pc = "users"
  /\ script' =
       IF script.user = Cardinality(ScriptUsers)
       THEN [script EXCEPT !.pc = "done"]
       ELSE IF Len(scriptDb[script.user + 1]) = 0
       THEN [script EXCEPT !.user = @ + 1]
       ELSE [script EXCEPT !.user = @ + 1, !.pos = 1, !.pc = "survey"]
  /\ UNCHANGED <<scriptDb, scriptBefore>>
  /\ UNCHANGED nonScriptVars

\* The loop body for one survey, up to the await of its update.
ProcessSurvey ==
  /\ script.pc = "survey"
  /\ LET updates == UpdatesOf(scriptDb[script.user][script.pos])
         counted == [script EXCEPT
                       !.paSystemUpdated =
                         IF "paSystem" \in DOMAIN updates THEN @ + 1 ELSE @,
                       !.jbUpdated =
                         IF "jb" \in DOMAIN updates THEN @ + 1 ELSE @]
     IN script' = IF DOMAIN updates # {}
                  THEN [counted EXCEPT !.pc = "update"]
                  ELSE Advance(counted)
  /\ UNCHANGED <<scriptDb, scriptBefore>>
  /\ UNCHANGED nonScriptVars

\* surveyDoc.ref.update(updates) settles; a rejection ends the script.
ScriptUpdateSettle(ok) ==
  /\ script.pc = "update"
  /\ IF ok
     THEN /\ scriptDb' =
               [scriptDb EXCEPT ![script.user][script.pos] =
                  MergeUpdates(@, UpdatesOf(@))]
          /\ script' = Advance([script EXCEPT !.totalUpdated = @ + 1])
     ELSE /\ script' = [script EXCEPT !.pc = "failed"]
          /\ UNCHANGED scriptDb
  /\ UNCHANGED scriptBefore
  /\ UNCHANGED nonScriptVars

\* At most MaxScriptSurveys surveys, spread over the two users.
InitScript ==
  /\ ExportIdle /\ PhoneIdle /\ AuthIdle /\ StoreIdle
  /\ ImageIdle /\ UiIdle
  /\ \E n1 \in 0..MaxScriptSurveys :
       \E n2 \in 0..(MaxScriptSurveys - n1) :
         \E s1 \in [1..n1 -> ScriptSurveys], s2 \in [1..n2 -> ScriptSurveys] :
           scriptDb = <<s1, s2>>
  /\ scriptBefore = scriptDb
  /\ script = NoScript

NextScript ==
  \/ ScriptStart
  \/ NextUser
  \/ ProcessSurvey
  \/ \E ok \in BOOLEAN : ScriptUpdateSettle(ok)

SpecScript == InitScript /\ [][NextScript]_vars

(* ------------------ one record's PDF and its images ------------------- *)
\* The three copies of the generator: bulkPdfExport.ts renders HTML with
\* html2canvas; the two jsPDF copies (the second resizes each image) draw the
\* document directly and are the ones that export generateClientBulkPDFs.
Generators == {"html", "jsPDF", "jsPDFResize"}
\* What can happen to one image: loaded, fetch() rejects, the response is
\* not OK, the FileReader fires error, the Image element fires error.
LoadOutcomes == {"ok", "fetchError", "notOk", "readError", "decodeError"}
\* Whether the server ever answers the fetch of an image.
Networks == UNION {[1..n -> {"responds", "hangs"}] : n \in 0..MaxImageUrls}

\* What the promise of loadImageAsBase64 settles with: "base64" a usable
\* data URL, "empty" the string '', "raw" a non-empty data URL that is not a
\* usable image, "rejected" a rejection.
loadImageAsBase64(g, o) ==
  IF g = "html"
  THEN \* fetch inside try; !response.ok, reader.onerror and img.onerror
       \* all give ''.
       IF o = "ok" THEN "base64" ELSE "empty"
  ELSE \* no response.ok test; the promise is returned from inside the try,
       \* not awaited, so reader.onerror = reject rejects the call.
       CASE o = "ok" -> "base64"
         [] o = "fetchError" -> "empty"
         [] o = "readError" -> "rejected"
         [] OTHER -> "raw"

Unsettled(st) == {k \in DOMAIN st : st[k] \in {"fetching", "waiting"}}

\* generateSinglePDFBlob is called for a record with Len(net) image URLs.
\* createSurveyHTML starts every load at once (map + Promise.all); the jsPDF
\* copies await the loads one after the other.
ImgStart(g, net) ==
  /\ imgJob.pc = "idle"
  /\ imgJob' =
       [pc |-> IF Len(net) > 0 THEN "images"
               ELSE IF g = "html" THEN "elements" ELSE "render",
        gen |-> g,
        net |-> net,
        st |-> [k \in 1..Len(net) |->
                  IF g = "html" \/ k = 1 THEN "fetching" ELSE "waiting"],
        elements |-> "none",
        counted |-> "none",
        cause |-> "none"]
  /\ UNCHANGED nonImageVars

\* The load of image k settles with outcome o. A rejection leaves
\* generateSinglePDFBlob at its await and lands in the catch of the record's
\* task, which counts the record as failed.
LoadSettle(k, o) ==
  /\ imgJob.pc = "images"
  /\ k \in DOMAIN imgJob.st
  /\ imgJob.st[k] = "fetching"
  /\ imgJob.net[k] = "responds"
  /\ LET r == loadImageAsBase64(imgJob.gen, o)
         st1 == [imgJob.st EXCEPT ![k] = r]
     IN imgJob' =
          IF r = "rejected"
          THEN [imgJob EXCEPT !.st = st1, !.pc = "done",
                              !.counted = "failed", !.cause = "image"]
          ELSE IF imgJob.gen = "html"
          THEN [imgJob EXCEPT !.st = st1,
                  !.pc = IF Unsettled(st1) = {} THEN "elements" ELSE "images"]
          ELSE IF k < Len(st1)
          THEN [imgJob EXCEPT !.st = [st1 EXCEPT ![k + 1] = "fetching"]]
          ELSE [imgJob EXCEPT !.st = st1, !.pc = "render"]
  /\ UNCHANGED nonImageVars

\* html only: the <img> elements of the container have loaded, failed, or the
\* 5000 ms timer of each has fired; then the 500 ms wait.
ElementsSettle(how) ==
  /\ imgJob.pc = "elements"
  /\ imgJob' = [imgJob EXCEPT !.pc = "render", !.elements = how]
  /\ UNCHANGED nonImageVars

\* html2canvas / jsPDF calls settle; addImageToPDF catches a failing
\* doc.addImage and draws a placeholder. A rejection of the rendering lands
\* in the catch of the record's task.
RenderDone(ok) ==
  /\ imgJob.pc = "render"
  /\ imgJob' = [imgJob EXCEPT !.pc = "done",
                  !.counted = IF ok THEN "success" ELSE "failed",
                  !.cause = IF ok THEN "none" ELSE "render"]
  /\ UNCHANGED nonImageVars

InitImage ==
  /\ ExportIdle /\ PhoneIdle /\ AuthIdle /\ StoreIdle /\ ScriptIdle
  /\ ImageIdle /\ UiIdle

NextImage ==
  \/ \E g \in Generators, net \in Networks : ImgStart(g, net)
  \/ \E k \in 1..MaxImageUrls, o \in LoadOutcomes : LoadSettle(k, o)
  \/ \E how \in {"onload", "onerror", "timeout"} : ElementsSettle(how)
  \/ \E ok \in BOOLEAN : RenderDone(ok)

SpecImage == InitImage /\ [][NextImage]_vars

\* The event loop runs every callback that is ready: a step that can be
\* taken is eventually taken.
SpecImageLive == InitImage /\ [][NextImage]_vars /\ WF_vars(NextImage)

(* ------------------- the dashboard's export buttons ------------------- *)
PdfProfiles == {"full", "client"}

\* The state of the Dashboard component after its first render, with count
\* surveys in the current list; isClientPDF is window.__isClientPDF === true.
\* opener and started are history: the button that opened the range dialog,
\* and for the last confirmed download its opener and the generator called.
DashboardState(count) ==
  [pc |-> "mounted", count |-> count,
   exporting |-> FALSE, exportingPDFs |-> FALSE,
   exportingClientPDFs |-> FALSE,
   pdfProgress |-> [current |-> 0, total |-> 0],
   clientPdfProgress |-> [current |-> 0, total |-> 0],
   showRangeModal |-> FALSE, isClientPDF |-> FALSE,
   opener |-> "none", running |-> {},
   started |-> [opener |-> "none", profile |-> "none"]]

\* The disabled attribute of the three buttons; the overlay of the range
\* dialog covers the page.
ExcelDisabled ==
  ui.exporting \/ ui.exportingPDFs \/ ui.count = 0

PdfDisabled ==
  \/ ui.exporting \/ ui.exportingPDFs \/ ui.exportingClientPDFs
  \/ ui.count = 0

\* handleExportExcel up to its await.
ClickExcel ==
  /\ ui.pc = "mounted"
  /\ ~ui.showRangeModal
  /\ ~ExcelDisabled
  /\ ui' = [ui EXCEPT !.exporting = TRUE, !.running = @ \cup {"excel"}]
  /\ UNCHANGED nonUiVars

\* exportSurveysToExcel settles, either way: the finally.
ExcelSettle ==
  /\ ui.pc = "mounted"
  /\ "excel" \in ui.running
  /\ ui' = [ui EXCEPT !.exporting = FALSE, !.running = @ \ {"excel"}]
  /\ UNCHANGED nonUiVars

\* handleBulkDownloadPDFs: opens the range dialog.
ClickDownloadPDFs ==
  /\ ui.pc = "mounted"
  /\ ~ui.showRangeModal
  /\ ~PdfDisabled
  /\ ui' = [ui EXCEPT !.showRangeModal = TRUE, !.opener = "full"]
  /\ UNCHANGED nonUiVars

\* handleClientBulkDownloadPDFs: opens the range dialog and sets the flag.
ClickClientDownload ==
  /\ ui.pc = "mounted"
  /\ ~ui.showRangeModal
  /\ ~PdfDisabled
  /\ ui' = [ui EXCEPT !.showRangeModal = TRUE, !.isClientPDF = TRUE,
                      !.opener = "client"]
  /\ UNCHANGED nonUiVars

\* The dialog is closed by Cancel, by a click on the overlay, or by the
\* close button, which alone resets the flag.
CloseModal(how) ==
  /\ ui.pc = "mounted"
  /\ ui.showRangeModal
  /\ ui' = [ui EXCEPT !.showRangeModal = FALSE,
                      !.isClientPDF = IF how = "x" THEN FALSE ELSE @,
                      !.opener = "none"]
  /\ UNCHANGED nonUiVars

\* handleRangeDownload with a valid range from..to, confirmed, up to its
\* await.
ConfirmRange(from, to) ==
  /\ ui.pc = "mounted"
  /\ ui.showRangeModal
  /\ 1 <= from /\ from <= to /\ to <= ui.count
  /\ LET isClientPDF == ui.isClientPDF
         profile == IF isClientPDF THEN "client" ELSE "full"
         progress == [current |-> 0, total |-> to - from + 1]
     IN ui' = [ui EXCEPT
                 !.showRangeModal = FALSE,
                 !.isClientPDF = FALSE,
                 !.exportingClientPDFs = IF isClientPDF THEN TRUE ELSE @,
                 !.clientPdfProgress = IF isClientPDF THEN progress ELSE @,
                 !.exportingPDFs = IF isClientPDF THEN @ ELSE TRUE,
                 !.pdfProgress = IF isClientPDF THEN @ ELSE progress,
                 !.running = @ \cup {profile},
                 !.started = [opener |-> ui.opener, profile |-> profile],
                 !.opener = "none"]
  /\ UNCHANGED nonUiVars

\* The onProgress callback handed to the generator, after one more record.
PdfProgress(profile) ==
  /\ ui.pc = "mounted"
  /\ profile \in ui.running
  /\ IF profile = "client"
     THEN /\ ui.clientPdfProgress.current < ui.clientPdfProgress.total
          /\ ui' = [ui EXCEPT !.clientPdfProgress.current = @ + 1]
     ELSE /\ ui.pdfProgress.current < ui.pdfProgress.total
          /\ ui' = [ui EXCEPT !.pdfProgress.current = @ + 1]
  /\ UNCHANGED nonUiVars

\* The generator returns or throws: the finally of handleRangeDownload.
PdfSettle(profile) ==
  /\ ui.pc = "mounted"
  /\ profile \in ui.running
  /\ ui' = [ui EXCEPT !.exportingPDFs = FALSE,
                      !.exportingClientPDFs = FALSE,
                      !.pdfProgress = [current |-> 0, total |-> 0],
                      !.clientPdfProgress = [current |-> 0, total |-> 0],
                      !.running = @ \ {profile}]
  /\ UNCHANGED nonUiVars

InitUi ==
  /\ ExportIdle /\ PhoneIdle /\ AuthIdle /\ StoreIdle /\ ScriptIdle
  /\ ImageIdle
  /\ \E count \in 0..MaxListed : ui = DashboardState(count)

NextUi ==
  \/ ClickExcel
  \/ ExcelSettle
  \/ ClickDownloadPDFs
  \/ ClickClientDownload
  \/ \E how \in {"cancel", "overlay", "x"} : CloseModal(how)
  \/ \E from \in 1..MaxListed, to \in 1..MaxListed : ConfirmRange(from, to)
  \/ \E profile \in PdfProfiles : PdfProgress(profile)
  \/ \E profile \in PdfProfiles : PdfSettle(profile)

SpecUi == InitUi /\ [][NextUi]_vars

(* ======================= properties of the export ===================== *)
Job(p) == jobs[p]
Returned(p) == jobs[p].pc = "done"
FailedSet == {i \in 1..N : outcome[i] = "failed"}
OkSet == {i \in 1..N : outcome[i] = "ok"}
SettledTasks(p) == {i \in 1..N : jobs[p].st[i] = "settled"}
Identity(n) == [k \in 1..n |-> k]
\* The batch of the survey at position i, from its 0-based index.
BatchOf(p, i) == ((i - 1) \div BatchSize(p)) + 1

\* C1: when an export returns, success + failed equals the number of input
\* surveys and the failure list has `failed` entries.
C1_CountsAddUp ==
  \A p \in Active :
    Returned(p) =>
      /\ Job(p).totalSuccess + Job(p).totalFailed = N
      /\ Len(Job(p).failedSurveys) = Job(p).totalFailed

C1_Witness ==
  \E p \in Active :
    /\ Returned(p)
    /\ N > BatchSize(p)
    /\ Job(p).totalFailed >= 1
    /\ Job(p).totalSuccess >= 1

\* C2: a failing render or download never aborts the export: no task and no
\* export call is rejected, surveys are started in input order without a
\* repeat or a gap, and a returned export has started every survey, the
\* ones after a failed survey included.
C2_FailureNeverAborts ==
  \A p \in Active :
    /\ Job(p).pc # "rejected"
    /\ \A i \in 1..N : Job(p).st[i] # "rejected"
    /\ Job(p).started = Identity(Len(Job(p).started))
    /\ Returned(p) => Len(Job(p).started) = N
    /\ \A i \in FailedSet : Job(p).st[i] = "settled"

C2_Witness ==
  \E p \in Active :
    /\ Returned(p)
    /\ N > BatchSize(p)
    /\ outcome[1] = "failed"
    /\ outcome[2] = "ok"
    /\ outcome[N] = "ok"

\* C3: when an export returns, the failure list has one entry per failed
\* survey and none for a succeeded one; an entry carries the survey's
\* identifying fields, and a non-empty value where the survey lacks them.
C3_FailureListExact ==
  \A p \in Active :
    Returned(p) =>
      /\ Len(Job(p).failedSurveys) = Cardinality(FailedSet)
      /\ Len(failOrder) = Cardinality(FailedSet)
      /\ \A k \in 1..Len(Job(p).failedSurveys) :
           LET e == Job(p).failedSurveys[k]
               r == surveys[failOrder[k]]
           IN /\ outcome[failOrder[k]] = "failed"
              /\ Truthy(e.rfpNumber)
              /\ Truthy(e.poleId)
              /\ Truthy(r.rfpNumber) => e.rfpNumber.s = r.rfpNumber.s
              /\ Truthy(r.poleId) => e.poleId.s = r.poleId.s

C3_Witness ==
  \E p \in Active :
    /\ Returned(p)
    /\ OkSet # {}
    /\ \E i \in FailedSet : ~Truthy(surveys[i].rfpNumber)
    /\ \E i \in FailedSet : Truthy(surveys[i].poleId)

\* C4: a survey is started only when every survey of the earlier batches has
\* settled, hence never while a survey more than a batch size below it is
\* unsettled; the surveys of one batch are all started together.
C4_BatchesSequential ==
  \A p \in Active :
    LET st == jobs[p].st
        startedSet == {i \in 1..N : st[i] # "notStarted"}
        unsettled == {m \in 1..N : st[m] # "settled"}
        waiting == {m \in 1..N : st[m] = "notStarted"}
    IN /\ \A i \in startedSet, m \in unsettled :
            /\ BatchOf(p, m) >= BatchOf(p, i)
            /\ (m - 1) >= (i - 1) - BatchSize(p)
       /\ \A i \in startedSet, m \in waiting : BatchOf(p, m) # BatchOf(p, i)

C4_Witness ==
  \E p \in Active :
    /\ Job(p).batchIdx = 2
    /\ Job(p).pc = "awaitAll"
    /\ \A i \in 1..N : BatchOf(p, i) = 2 => Job(p).st[i] = "rendering"
    /\ \E i \in 1..N : BatchOf(p, i) = 1 /\ outcome[i] = "failed"

\* C5 as stated: an export with a callback has invoked it exactly N times,
\* with (1, N), (2, N), ..., (N, N), when it returns.
C5_ExactlyNInvocations ==
  \A p \in Active :
    (onProgress # "none" /\ Returned(p)) =>
      Job(p).cbLog = [k \in 1..N |-> <<k, N>>]

\* C5, amended: the callback is invoked once per settled survey with
\* (1, N), (2, N), ...; the jsPDF exports return after exactly N
\* invocations, the html2canvas export after one more invocation (N, N).
C5_ProgressPerSettle ==
  \A p \in Active :
    onProgress # "none" =>
      /\ \A k \in 1..Len(Job(p).cbLog) : Job(p).cbLog[k] = <<Min(k, N), N>>
      /\ ~Returned(p) => Len(Job(p).cbLog) = Cardinality(SettledTasks(p))
      /\ Returned(p) =>
           Len(Job(p).cbLog) = IF p = "html" THEN N + 1 ELSE N

C5_Witness ==
  \E p \in Active :
    /\ p = "html"
    /\ onProgress = "returns"
    /\ Returned(p)
    /\ N = 7
    /\ Cardinality(FailedSet) = 1
    /\ Len(Job(p).cbLog) = 8

\* C6: a throwing callback neither stops the export nor changes its result:
\* no task and no export call is rejected, and a returned export reports
\* the counts and the failure list of the render outcomes.
C6_CallbackBestEffort ==
  \A p \in Active :
    /\ Job(p).pc # "rejected"
    /\ \A i \in 1..N : Job(p).st[i] # "rejected"
    /\ Returned(p) =>
         /\ Job(p).totalSuccess = Cardinality(OkSet)
         /\ Job(p).totalFailed = Cardinality(FailedSet)
         /\ Len(Job(p).failedSurveys) = Len(failOrder)

\* C7: at every point of an export completed = success + failed, the
\* failure list has `failed` entries, completed counts the settled tasks
\* and never exceeds the number of input surveys.
C7_NoLostUpdate ==
  \A p \in Active :
    /\ Job(p).completed = Job(p).totalSuccess + Job(p).totalFailed
    /\ Len(Job(p).failedSurveys) = Job(p).totalFailed
    /\ Job(p).completed = Cardinality(SettledTasks(p))
    /\ Job(p).completed <= N

C7_Witness ==
  \E p \in Active :
    /\ Job(p).pc = "awaitAll"
    /\ Job(p).totalSuccess >= 1
    /\ Job(p).totalFailed >= 1
    /\ \E i \in 1..N : Job(p).st[i] = "rendering"
    /\ \E i \in 1..N : Job(p).st[i] = "delaying"

SameResult(p, q) ==
  /\ Job(p).totalSuccess = Job(q).totalSuccess
  /\ Job(p).totalFailed = Job(q).totalFailed
  /\ Job(p).failedSurveys = Job(q).failedSurveys

\* C8 as stated: the client export and a full export that ran on the same
\* input with the same outcomes return the same result, made the same
\* callback invocations and used the same batches.
C8_SamePipeline ==
  \A p \in Active, q \in Active :
    (Returned(p) /\ Returned(q)) =>
      /\ SameResult(p, q)
      /\ Job(p).cbLog = Job(q).cbLog
      /\ Batches(p, N) = Batches(q, N)

\* C8, amended: that holds of generateClientBulkPDFs and the jsPDF
\* generateBulkPDFs; against the html2canvas generateBulkPDFs only the
\* counts agree, and the failure lists name the same surveys in the same
\* order.
C8_SamePipelineJsPdf ==
  \A p \in Active, q \in Active :
    (Returned(p) /\ Returned(q)) =>
      /\ Job(p).totalSuccess = Job(q).totalSuccess
      /\ Job(p).totalFailed = Job(q).totalFailed
      /\ Len(Job(p).failedSurveys) = Len(Job(q).failedSurveys)
      /\ \A k \in 1..Len(Job(p).failedSurveys) :
           LET r == surveys[failOrder[k]] IN
           /\ Truthy(r.rfpNumber) =>
                Job(p).failedSurveys[k].rfpNumber.s =
                  Job(q).failedSurveys[k].rfpNumber.s
           /\ Truthy(r.poleId) =>
                Job(p).failedSurveys[k].poleId.s =
                  Job(q).failedSurveys[k].poleId.s
      /\ "html" \notin {p, q} =>
           /\ Job(p).failedSurveys = Job(q).failedSurveys
           /\ Job(p).cbLog = Job(q).cbLog
           /\ Batches(p, N) = Batches(q, N)

C8_Witness ==
  /\ Active = {"client", "full"}
  /\ Returned("client")
  /\ Returned("full")
  /\ onProgress = "returns"
  /\ N > BATCH_SIZE
  /\ FailedSet # {}
  /\ \E i \in FailedSet : ~Truthy(surveys[i].poleId)

(* ====================== properties of the batching ==================== *)
RECURSIVE Flatten(_)
Flatten(ss) == IF ss = <<>> THEN <<>> ELSE Head(ss) \o Flatten(Tail(ss))
\* ceil(n / b)
CeilDiv(n, b) == (n + b - 1) \div b

\* C22: N records are cut into ceil(N/B) batches, all of B records except
\* the last, which has 1 to B; the batches in order are the input list, and
\* the surveys started so far are the batches so far.
C22_BatchPartition ==
  \A p \in Active :
    LET bs == Batches(p, N)
        B == BatchSize(p)
    IN /\ Len(bs) = CeilDiv(N, B)
       /\ \A k \in 1..Len(bs) :
            IF k < Len(bs) THEN Len(bs[k]) = B
            ELSE Len(bs[k]) >= 1 /\ Len(bs[k]) <= B
       /\ Flatten(bs) = Identity(N)
       /\ jobs[p].started = Flatten(SubSeq(bs, 1, jobs[p].batchIdx))

C22_Witness ==
  /\ "html" \in Active
  /\ N = 7
  /\ Returned("html")
  /\ [k \in 1..3 |-> Len(Batches("html", N)[k])] = <<3, 3, 1>>
  /\ Job("html").totalSuccess = 6
  /\ Job("html").totalFailed = 1
  /\ BatchOf("html", failOrder[1]) = 2

\* C21: without a leading '+', digits that start with the trunk 0 give +91
\* and the digits after the 0; all other digits give +91 and the digits.
C21_DefaultCountryRule ==
  LET stripped == StripPhone(phone) IN
  (phonePc # "input" /\ ~StartsWith(stripped, <<"+">>)) =>
    normalized = (IF StartsWith(stripped, <<"0">>)
                  THEN <<"+", "9", "1">> \o Substring1(stripped)
                  ELSE <<"+", "9", "1">> \o stripped)

(* ================== properties of normalizePhoneNumber ================ *)
\* C9: normalizing a normalized number changes nothing.
C9_Idempotent ==
  phonePc = "twice" => renormalized = normalized

C9_Witness ==
  /\ phonePc = "twice"
  /\ normalized # phone
  /\ StartsWith(StripPhone(phone), <<"0">>)
  /\ Len(StripPhone(phone)) < Len(phone)

\* C10: a national number, the same number after a trunk 0 and the same
\* number after +91 all normalize to +91 followed by the national number.
C10_OneCanonicalForm ==
  \A n \in NationalNumbers :
    (phone \in PhoneForms(n) /\ phonePc # "input") =>
      normalized = <<"+", "9", "1">> \o n

\* C20: the result of normalizePhoneNumber holds digits only, apart from
\* one '+' that can stand only in first place.
C20_OnlyLeadingPlus ==
  phonePc # "input" =>
    \A k \in 1..Len(normalized) :
      \/ normalized[k] \in DigitChars
      \/ (k = 1 /\ normalized[k] = "+")

(* ======================== properties of signIn ======================== *)
SignInDone == call.pc = "done"
NotFound == [kind |-> "error", message |-> "User not found"]
InvalidPassword == [kind |-> "error", message |-> "Invalid password"]

\* The three lookup keys of the policy, for the call in flight.
Tier1Key == call.normalizedPhone
Tier2Key == Substring3(call.normalizedPhone)
Tier3Key == call.phoneNumber
HasTier2 == StartsWith(call.normalizedPhone, CountryCode)
\* A record that only the second or the third tier reaches.
LegacyOnly ==
  /\ Matching(Tier1Key) = {}
  /\ \/ HasTier2 /\ Matching(Tier2Key) # {}
     \/ Matching(Tier3Key) # {}

\* C11: the lookup asks for the normalized phone first, for the phone
\* without its country code only after an empty answer, for the raw input
\* only after another empty answer, never after a record was returned; a
\* record that only the second or third tier reaches is found.
C11_ThreeTierLookup ==
  call.pc # "idle" =>
    /\ call.queries[1] = Tier1Key
    /\ \A k \in 2..Len(call.queries) : Matching(call.queries[k - 1]) = {}
    /\ Len(call.queries) >= 2 =>
         call.queries[2] = (IF HasTier2 THEN Tier2Key ELSE Tier3Key)
    /\ Len(call.queries) >= 3 => call.queries[3] = Tier3Key
    /\ (SignInDone /\ LegacyOnly) => call.result # NotFound

\* The last snapshot of the lookup is empty.
LookupEmpty == Matching(call.queries[Len(call.queries)]) = {}
HashDiffers ==
  users[FirstDoc(Matching(call.queries[Len(call.queries)]))].password
    # call.hashedPassword

\* C12: a finished signIn failed with 'User not found' exactly when the
\* lookup returned no record, failed with 'Invalid password' exactly when
\* a record was found whose hash differs, and returned the user otherwise.
C12_FailureTaxonomy ==
  SignInDone =>
    /\ call.result = NotFound <=> LookupEmpty
    /\ call.result = InvalidPassword <=> (~LookupEmpty /\ HashDiffers)
    /\ call.result.kind = "user" <=> (~LookupEmpty /\ ~HashDiffers)

\* C13: the caller catches the same value for an unregistered phone and
\* for a registered phone with a wrong password.
C13_GenericFailure ==
  \A a, b \in observed :
    (a.cause = "notFound" /\ b.cause = "invalidPassword") =>
      a.message = b.message

\* C14: once the record is found and the hash matches, signIn returns the
\* user with the timestamps written, also when the store rejects the write.
C14_UpdateFailureTolerated ==
  (SignInDone /\ call.found # "") =>
    /\ call.result.kind = "user"
    /\ call.result.user.id = call.found

\* C27: once the provider has mounted, the user in memory is the stored
\* user (what JSON keeps of it), both absent or both present; a protected
\* page is rendered only with a user and the login page only without one.
C27_SessionPersisted ==
  /\ ~loading => Stringify(ctxUser) = localUser
  /\ PrivateRoute = "children" => (ctxUser # NoUser /\ localUser # NoUser)
  /\ PrivateRoute = "login" => (ctxUser = NoUser /\ localUser = NoUser)

\* A user restored by a reload after a sign-out and a second sign-in.
C27_Witness ==
  /\ ~loading
  /\ call.pc = "idle"
  /\ call.n = 2
  /\ ctxUser # NoUser
  /\ ctxUser.lastLogin.kind = "object"
  /\ ctxUser = localUser
  /\ PrivateRoute = "children"

CredentialFailure(c) ==
  c.pc = "done" /\ c.result \in {NotFound, InvalidPassword}

\* C28: the step that ends a signIn with 'User not found' or 'Invalid
\* password' leaves the user records, the session and its stored copy as
\* they were when signIn was called.
C28_FailedSignInFrame ==
  [][(call.pc # "done" /\ CredentialFailure(call')) =>
       <<users', ctxUser', localUser'>> = call.before]_vars

\* A failed sign-in while a user is signed in and has logged in before.
C28_Witness ==
  /\ CredentialFailure(call)
  /\ ctxUser # NoUser
  /\ localUser # NoUser
  /\ \E u \in DOMAIN users : users[u].lastLogin > 0
  /\ <<users, ctxUser, localUser>> = call.before


(* ================= properties of the surveys and pages ================ *)
\* C15: a user who is not an admin is shown only surveys they own, in the
\* dashboard list and on the survey detail page.
C15_OwnSurveysOnly ==
  /\ (dash.pc = "loaded" /\ ~IsAdmin(dash.user)) =>
       \A k \in filteredSurveys : k[1] = dash.user
  /\ (detail.pc = "shown" /\ ~IsAdmin(detail.viewer)) =>
       detail.survey.userId = detail.viewer

\* The blobs the images of the survey under deletion were uploaded to.
ReferencedBlobs ==
  {ObjectPath(del.owner, del.id, j - 1) : j \in 1..Len(del.imageUrls)}

\* C16: once deleteSurvey has issued the deleteDoc of an existing survey, a
\* deleteObject was issued before it for every image the survey refers to.
C16_DeleteCascades ==
  del.pc \in {"doc", "done"} =>
    /\ ReferencedBlobs \subseteq del.issued
    /\ \A k \in 1..Len(del.log) :
         del.log[k].op = "deleteDoc" => k = Len(del.log)

OwnerOrAdmin(k) ==
  /\ detail.pc \in {"shown", "deleting"}
  /\ <<detail.owner, detail.id>> = k
  /\ RoleOf(detail.viewer) = Str("admin") \/ detail.viewer = k[1]

\* C26: every step that changes or removes a stored survey, and every step
\* that starts a deleteSurvey, is taken from the detail page of that survey
\* by its owner or an admin.
C26_OwnerOrAdminOnly ==
  [][/\ \A k \in DOMAIN docs :
          (k \notin DOMAIN docs' \/ docs'[k] # docs[k]) => OwnerOrAdmin(k)
     /\ (del.pc # "read" /\ del'.pc = "read")
          => OwnerOrAdmin(<<del'.owner, del'.id>>)]_vars

\* A user who is neither admin nor owner looks at a survey after an owner
\* who is no admin has edited one survey and deleted another.
C26_Witness ==
  /\ detail.pc = "shown"
  /\ RoleOf(detail.viewer) # Str("admin")
  /\ detail.viewer # detail.owner
  /\ ~canEditOrDelete
  /\ del.pc = "done" /\ del.result = "ok"
  /\ RoleOf(del.owner) # Str("admin")
  /\ \E k \in DOMAIN docs : docs[k].poleId # "P1"

\* C17: the userId of every stored survey is the user whose sub-collection
\* holds it, and that user exists.
C17_OwnerIsUser ==
  \A k \in DOMAIN docs :
    /\ docs[k].userId = k[1]
    /\ docs[k].userId \in DOMAIN users

C17_Witness ==
  /\ nextId = MaxDocs
  /\ del.pc = "done" /\ del.result = "ok"
  /\ <<del.owner, del.id>> \notin DOMAIN docs
  /\ \E k \in DOMAIN docs :
       /\ docs[k].userName # DisplayName(k[1])
       /\ docs[k].poleId = "P2"

\* C18: when the store failed during loadSurveys, the loaded dashboard
\* shows an error, and each of the two gateway calls was issued once.
C18_LoadFailureShown ==
  dash.pc = "loaded" =>
    /\ dash.failed => dash.error # ""
    /\ Len(dash.calls) = 2
    /\ dash.calls[1] # dash.calls[2]

(* =================== properties of the update script ================== *)
ScriptKeys ==
  {k \in ScriptUsers \X (1..MaxScriptSurveys) : k[2] <= Len(scriptDb[k[1]])}
Before(k) == scriptBefore[k[1]][k[2]]
After(k) == scriptDb[k[1]][k[2]]
\* The stored value is the number n, as a number or as its digits.
IsNumber(v, n) == v = Num(n) \/ v = Str(ToString(n))

\* C19: after a run that printed its summary, every survey with PA System
\* 1 has 2, every survey with 2 has 4, any other PA System value is as it
\* was, every JB is "1", and the printed total is the number of surveys
\* that changed.
C19_ScriptUpdates ==
  script.pc = "done" =>
    /\ \A k \in ScriptKeys :
         /\ IsNumber(Before(k).paSystem, 1) => After(k).paSystem = Num(2)
         /\ IsNumber(Before(k).paSystem, 2) => After(k).paSystem = Num(4)
         /\ (~IsNumber(Before(k).paSystem, 1)
               /\ ~IsNumber(Before(k).paSystem, 2)) =>
              After(k).paSystem = Before(k).paSystem
         /\ After(k).jb = Str("1")
    /\ script.totalUpdated =
         Cardinality({k \in ScriptKeys : After(k) # Before(k)})

C19_Witness ==
  /\ script.pc = "done"
  /\ \E k \in ScriptKeys : Before(k).paSystem = Num(1)
  /\ \E k \in ScriptKeys : After(k) = Before(k) /\ After(k).paSystem = Num(4)
  /\ script.totalUpdated = 1

(* ================= properties of the record's images ================== *)
ImageFailed(st) == {k \in DOMAIN st : st[k] \in {"empty", "raw", "rejected"}}

\* C23: an image that cannot be loaded never makes its record fail: the
\* record is counted as failed only when the rendering itself failed.
C23_ImageFailureTolerated ==
  imgJob.pc = "done" =>
    /\ imgJob.cause # "image"
    /\ (ImageFailed(imgJob.st) # {} /\ imgJob.cause = "none"
          => imgJob.counted = "success")

\* C24: whatever the fetches do, once started the record's task settles.
C24_RecordSettles == (imgJob.pc # "idle") ~> (imgJob.pc = "done")

(* ================= properties of the export buttons =================== *)
\* C29: the generator that a confirmed download runs is the one of the
\* button that opened the dialog it was confirmed from.
C29_ProfileOfOpener ==
  ui.pc = "mounted" /\ ui.started.opener # "none" =>
    ui.started.profile = ui.started.opener

\* C30: at most one export runs at a time, and when none runs every
\* export-in-progress flag is off and both progress counters are 0/0.
C30_OneExportAtATime ==
  ui.pc = "mounted" =>
    /\ Cardinality(ui.running) <= 1
    /\ ui.running = {} =>
         /\ ~ui.exporting /\ ~ui.exportingPDFs /\ ~ui.exportingClientPDFs
         /\ ui.pdfProgress = [current |-> 0, total |-> 0]
         /\ ui.clientPdfProgress = [current |-> 0, total |-> 0]

====
